---- MODULE Spec2Model ----
(***************************************************************************)
(* Model of the invoice extraction engine of oracle-erp-invoice-ocr:       *)
(*   - invoice_parser.parse_invoice_text   (header field extractor)        *)
(*   - text_parser.extract_line_items      (line-item table extractor,     *)
(*     the one main.py and erp.py import)                                  *)
(*   - invoice_parser.extract_line_items   (the older, regex-row variant)  *)
(* Texts are TLA+ strings; a character is a string of length one.  Regular *)
(* expressions are syntax trees interpreted by a backtracking matcher with *)
(* the priority order of Python's re module.                               *)
(***************************************************************************)
EXTENDS Integers, Sequences, FiniteSets, TLC

(***************************************************************************)
(* Characters and Python string helpers                                    *)
(***************************************************************************)
None == "<None>"

Ch(s, i) == SubSeq(s, i, i)

UpperSet ==
    { "A", "B", "C", "D", "E", "F", "G", "H", "I", "J", "K", "L", "M",
      "N", "O", "P", "Q", "R", "S", "T", "U", "V", "W", "X", "Y", "Z" }

LowerSet ==
    { "a", "b", "c", "d", "e", "f", "g", "h", "i", "j", "k", "l", "m",
      "n", "o", "p", "q", "r", "s", "t", "u", "v", "w", "x", "y", "z" }

DigitSet == {"0", "1", "2", "3", "4", "5", "6", "7", "8", "9"}

\* Python's \s for the characters texts are built from
SpaceSet == {" ", "\t", "\n"}

\* Python's \w
WordSet == UpperSet \cup LowerSet \cup DigitSet \cup {"_"}

ToLowerMap ==
    ("A" :> "a") @@ ("B" :> "b") @@ ("C" :> "c") @@ ("D" :> "d") @@ ("E" :> "e") @@
    ("F" :> "f") @@ ("G" :> "g") @@ ("H" :> "h") @@ ("I" :> "i") @@ ("J" :> "j") @@
    ("K" :> "k") @@ ("L" :> "l") @@ ("M" :> "m") @@ ("N" :> "n") @@ ("O" :> "o") @@
    ("P" :> "p") @@ ("Q" :> "q") @@ ("R" :> "r") @@ ("S" :> "s") @@ ("T" :> "t") @@
    ("U" :> "u") @@ ("V" :> "v") @@ ("W" :> "w") @@ ("X" :> "x") @@ ("Y" :> "y") @@
    ("Z" :> "z")

ToUpperMap ==
    ("a" :> "A") @@ ("b" :> "B") @@ ("c" :> "C") @@ ("d" :> "D") @@ ("e" :> "E") @@
    ("f" :> "F") @@ ("g" :> "G") @@ ("h" :> "H") @@ ("i" :> "I") @@ ("j" :> "J") @@
    ("k" :> "K") @@ ("l" :> "L") @@ ("m" :> "M") @@ ("n" :> "N") @@ ("o" :> "O") @@
    ("p" :> "P") @@ ("q" :> "Q") @@ ("r" :> "R") @@ ("s" :> "S") @@ ("t" :> "T") @@
    ("u" :> "U") @@ ("v" :> "V") @@ ("w" :> "W") @@ ("x" :> "X") @@ ("y" :> "Y") @@
    ("z" :> "Z")

LowerCh(c) == IF c \in UpperSet THEN ToLowerMap[c] ELSE c

UpperCh(c) == IF c \in LowerSet THEN ToUpperMap[c] ELSE c

RECURSIVE FlattenRange(_, _, _)
FlattenRange(parts, lo, hi) ==
    IF lo > hi THEN ""
    ELSE IF lo = hi THEN parts[lo]
    ELSE LET mid == (lo + hi) \div 2
         IN  FlattenRange(parts, lo, mid) \o FlattenRange(parts, mid + 1, hi)

\* "".join(parts)
Flatten(parts) == FlattenRange(parts, 1, Len(parts))

\* str.lower()
Lower(s) == Flatten([j \in 1..Len(s) |-> LowerCh(Ch(s, j))])

\* str.lstrip(chars)
LStrip(s, cs) ==
    LET keep == {j \in 1..Len(s) : Ch(s, j) \notin cs}
    IN  IF keep = {} THEN "" ELSE SubSeq(s, CHOOSE j \in keep : \A k \in keep : j <= k, Len(s))

\* str.rstrip(chars)
RStrip(s, cs) ==
    LET keep == {j \in 1..Len(s) : Ch(s, j) \notin cs}
    IN  IF keep = {} THEN "" ELSE SubSeq(s, 1, CHOOSE j \in keep : \A k \in keep : j >= k)

\* str.strip(chars)
StripChars(s, cs) == RStrip(LStrip(s, cs), cs)

\* str.strip()
Strip(s) == StripChars(s, SpaceSet)

\* sub in s
Contains(s, sub) == \E j \in 1..(Len(s) - Len(sub) + 1) : SubSeq(s, j, j + Len(sub) - 1) = sub

\* s.endswith(suf)
EndsWith(s, suf) == Len(s) >= Len(suf) /\ SubSeq(s, Len(s) - Len(suf) + 1, Len(s)) = suf

RECURSIVE Replace(_, _, _)
\* s.replace(old, new), old non-empty
Replace(s, old, new) ==
    IF Len(s) < Len(old) THEN s
    ELSE IF SubSeq(s, 1, Len(old)) = old
         THEN new \o Replace(SubSeq(s, Len(old) + 1, Len(s)), old, new)
         ELSE Ch(s, 1) \o Replace(Tail(s), old, new)

\* the first position of c in s, 0 when there is none
IndexOfCh(s, c) ==
    LET at == {j \in 1..Len(s) : Ch(s, j) = c}
    IN  IF at = {} THEN 0 ELSE CHOOSE j \in at : \A k \in at : j <= k

RECURSIVE SplitLines(_)
\* str.splitlines(): the pieces between line breaks; a final line break opens no further line
SplitLines(s) ==
    IF s = "" THEN <<>>
    ELSE LET nl == IndexOfCh(s, "\n")
         IN  IF nl = 0 THEN <<s>>
             ELSE <<SubSeq(s, 1, nl - 1)>> \o SplitLines(SubSeq(s, nl + 1, Len(s)))

\* re.sub(r"[cs]+", " ", s): every run of characters of cs becomes one space
CollapseRuns(s, cs) ==
    Flatten([j \in 1..Len(s) |->
                IF Ch(s, j) \notin cs THEN Ch(s, j)
                ELSE IF j > 1 /\ Ch(s, j - 1) \in cs THEN "" ELSE " "])

(***************************************************************************)
(* Regular expressions: syntax trees                                       *)
(***************************************************************************)
Unbounded == -1

Str(x) == [t |-> "str", s |-> x]

Set(cs) == [t |-> "set", cs |-> cs]

NotSet(cs) == [t |-> "nset", cs |-> cs]

Cat(rs) == [t |-> "cat", rs |-> rs]

Alt(rs) == [t |-> "alt", rs |-> rs]

Rep(r, lo, hi, greedy) == [t |-> "rep", r |-> r, lo |-> lo, hi |-> hi, greedy |-> greedy]

Star(r) == Rep(r, 0, Unbounded, TRUE)

Plus(r) == Rep(r, 1, Unbounded, TRUE)

Opt(r) == Rep(r, 0, 1, TRUE)

LazyPlus(r) == Rep(r, 1, Unbounded, FALSE)

\* a capturing group; g is "value" for (?P<value>...), else the group's name or number
Grp(g, r) == Cat(<<[t |-> "open", g |-> g], r, [t |-> "close", g |-> g]>>)

WordBoundary == [t |-> "wb"]

Digit == Set(DigitSet)

Ws == Set(SpaceSet)

\* "." without DOTALL
AnyChar == NotSet({"\n"})

(***************************************************************************)
(* Regular expressions: the matcher (re.search / re.match / findall)       *)
(***************************************************************************)
GroupNames == {"value", "1", "description", "qty", "unit_price", "line_total"}

NoCaps == [g \in GroupNames |-> <<0, 0>>]

NoMatch == [ok |-> FALSE, b |-> 0, e |-> 0, caps |-> NoCaps]

\* equality of characters under re.IGNORECASE (ic)
SameCh(a, b, ic) == a = b \/ (ic /\ LowerCh(a) = LowerCh(b))

InClass(c, cs, ic) == c \in cs \/ (ic /\ (LowerCh(c) \in cs \/ UpperCh(c) \in cs))

SameStr(a, b, ic) == Len(a) = Len(b) /\ \A j \in 1..Len(a) : SameCh(Ch(a, j), Ch(b, j), ic)

IsWordAt(s, i) == i >= 1 /\ i <= Len(s) /\ Ch(s, i) \in WordSet

Min(S) == CHOOSE x \in S : \A y \in S : x <= y

Max(S) == CHOOSE x \in S : \A y \in S : x >= y

\* does the class expression r (a set or a negated set) admit character c
ClassHas(r, c, ic) == IF r.t = "set" THEN InClass(c, r.cs, ic) ELSE ~InClass(c, r.cs, ic)

\* the number of consecutive characters of s from position i that r admits
RunLength(r, s, i, ic) ==
    Min({j \in i..(Len(s) + 1) : j = Len(s) + 1 \/ ~ClassHas(r, Ch(s, j), ic)}) - i

RECURSIVE MatchHere(_, _, _, _, _)

RECURSIVE TryRuns(_, _, _, _, _, _, _, _)
\* the first run length c, going from c to last by step, after which rs matches
TryRuns(rs, s, i, c, last, step, caps, ic) ==
    LET m == MatchHere(rs, s, i + c, caps, ic)
    IN  IF m.ok THEN m
        ELSE IF c = last THEN NoMatch
        ELSE TryRuns(rs, s, i, c + step, last, step, caps, ic)

\* rs is the sequence of expressions still to match from position i of s;
\* alternatives are tried in the order re tries them, the first success wins
MatchHere(rs, s, i, caps, ic) ==
    IF Len(rs) = 0 THEN [ok |-> TRUE, b |-> 0, e |-> i, caps |-> caps]
    ELSE LET r == Head(rs)
             k == Tail(rs)
         IN  CASE r.t = "str" ->
                    IF i + Len(r.s) - 1 <= Len(s) /\ SameStr(SubSeq(s, i, i + Len(r.s) - 1), r.s, ic)
                    THEN MatchHere(k, s, i + Len(r.s), caps, ic)
                    ELSE NoMatch
               [] r.t = "set" ->
                    IF i <= Len(s) /\ InClass(Ch(s, i), r.cs, ic)
                    THEN MatchHere(k, s, i + 1, caps, ic)
                    ELSE NoMatch
               [] r.t = "nset" ->
                    IF i <= Len(s) /\ ~InClass(Ch(s, i), r.cs, ic)
                    THEN MatchHere(k, s, i + 1, caps, ic)
                    ELSE NoMatch
               [] r.t = "wb" ->
                    IF IsWordAt(s, i - 1) # IsWordAt(s, i)
                    THEN MatchHere(k, s, i, caps, ic)
                    ELSE NoMatch
               [] r.t = "open" ->
                    MatchHere(k, s, i, [caps EXCEPT ![r.g] = <<i, 0>>], ic)
               [] r.t = "close" ->
                    MatchHere(k, s, i, [caps EXCEPT ![r.g] = <<caps[r.g][1], i>>], ic)
               [] r.t = "cat" ->
                    MatchHere(r.rs \o k, s, i, caps, ic)
               [] r.t = "alt" ->
                    IF Len(r.rs) = 0 THEN NoMatch
                    ELSE LET first == MatchHere(<<Head(r.rs)>> \o k, s, i, caps, ic)
                         IN  IF first.ok THEN first
                             ELSE MatchHere(<<Alt(Tail(r.rs))>> \o k, s, i, caps, ic)
               [] r.t = "rep" ->
                    IF r.r.t \in {"set", "nset"}
                    THEN \* a repeated character class: runs are tried from the longest
                         \* down (greedy) or from the shortest up (lazy)
                         LET n == RunLength(r.r, s, i, ic)
                             top == IF r.hi = Unbounded \/ r.hi > n THEN n ELSE r.hi
                         IN  IF top < r.lo THEN NoMatch
                             ELSE IF r.greedy THEN TryRuns(k, s, i, top, r.lo, -1, caps, ic)
                             ELSE TryRuns(k, s, i, r.lo, top, 1, caps, ic)
                    ELSE LET hi1 == IF r.hi = Unbounded THEN Unbounded ELSE r.hi - 1
                             lo1 == IF r.lo > 0 THEN r.lo - 1 ELSE 0
                             more == IF r.hi = 0 THEN NoMatch
                                     ELSE MatchHere(<<r.r, Rep(r.r, lo1, hi1, r.greedy)>> \o k, s, i, caps, ic)
                             stop == IF r.lo > 0 THEN NoMatch ELSE MatchHere(k, s, i, caps, ic)
                         IN  IF r.greedy
                             THEN (IF more.ok THEN more ELSE stop)
                             ELSE (IF stop.ok THEN stop ELSE more)

\* pattern.match(s): anchored at the start of s
ReMatch(re, s, ic) == [MatchHere(<<re>>, s, 1, NoCaps, ic) EXCEPT !.b = 1]

CaseClosure(cs) == cs \cup {LowerCh(c) : c \in cs} \cup {UpperCh(c) : c \in cs}

RECURSIVE FirstChars(_)
\* the characters a match of the sequence rs can begin with (any: no restriction known)
FirstChars(rs) ==
    IF Len(rs) = 0 THEN [any |-> TRUE, cs |-> {}]
    ELSE LET r == Head(rs)
             k == Tail(rs)
         IN  CASE r.t \in {"open", "close", "wb"} -> FirstChars(k)
               [] r.t = "str" -> IF Len(r.s) = 0 THEN FirstChars(k)
                                 ELSE [any |-> FALSE, cs |-> CaseClosure({Ch(r.s, 1)})]
               [] r.t = "set" -> [any |-> FALSE, cs |-> CaseClosure(r.cs)]
               [] r.t = "nset" -> [any |-> TRUE, cs |-> {}]
               [] r.t = "cat" -> FirstChars(r.rs \o k)
               [] r.t = "alt" ->
                    IF Len(r.rs) = 0 THEN [any |-> FALSE, cs |-> {}]
                    ELSE LET x == FirstChars(<<Head(r.rs)>> \o k)
                             y == FirstChars(<<Alt(Tail(r.rs))>> \o k)
                         IN  [any |-> x.any \/ y.any, cs |-> x.cs \cup y.cs]
               [] r.t = "rep" ->
                    LET x == FirstChars(<<r.r>> \o k)
                        y == IF r.lo = 0 THEN FirstChars(k) ELSE [any |-> FALSE, cs |-> {}]
                    IN  [any |-> x.any \/ y.any, cs |-> x.cs \cup y.cs]

\* the leftmost match of re in s that starts at position i or later; positions whose
\* character no match can begin with are passed over
SearchFrom(re, s, i, ic) ==
    LET first == FirstChars(<<re>>)
        starts == {p \in i..(Len(s) + 1) :
                      /\ first.any \/ (p <= Len(s) /\ Ch(s, p) \in first.cs)
                      /\ MatchHere(<<re>>, s, p, NoCaps, ic).ok}
    IN  IF starts = {} THEN NoMatch
        ELSE [MatchHere(<<re>>, s, Min(starts), NoCaps, ic) EXCEPT !.b = Min(starts)]

\* re.search(re, s): the leftmost match
ReSearch(re, s, ic) == SearchFrom(re, s, 1, ic)

\* m.group(g)
Group(m, s, g) == SubSeq(s, m.caps[g][1], m.caps[g][2] - 1)

RECURSIVE FindAllFrom(_, _, _)
FindAllFrom(re, s, i) ==
    LET m == SearchFrom(re, s, i, FALSE)
    IN  IF ~m.ok THEN <<>>
        ELSE <<SubSeq(s, m.b, m.e - 1)>> \o FindAllFrom(re, s, IF m.e > m.b THEN m.e ELSE m.e + 1)

\* pattern.findall(s) for a pattern without groups: non-overlapping matches, left to right
FindAll(re, s) == FindAllFrom(re, s, 1)

RECURSIVE DefinesGroup(_, _)
\* g in m.groupdict(): the pattern defines a group named g
DefinesGroup(r, g) ==
    CASE r.t = "open" -> r.g = g
      [] r.t \in {"cat", "alt"} -> \E j \in 1..Len(r.rs) : DefinesGroup(r.rs[j], g)
      [] r.t = "rep" -> DefinesGroup(r.r, g)
      [] OTHER -> FALSE

(***************************************************************************)
(* invoice_parser.py: the header field extractor                           *)
(***************************************************************************)
\* [A-Z0-9_\-\/]+
InvNoValue == Plus(Set(UpperSet \cup DigitSet \cup {"_", "-", "/"}))

\* [:\s]+
ColonOrSpaces == Plus(Set({":"} \cup SpaceSet))

\* \d{1,2}[\/\-]\d{1,2}[\/\-]\d{2,4}
DateValue == Cat(<<Rep(Digit, 1, 2, TRUE), Set({"/", "-"}), Rep(Digit, 1, 2, TRUE), Set({"/", "-"}), Rep(Digit, 2, 4, TRUE)>>)

\* \d[\d,]*\.?\d{0,2}
AmountValue == Cat(<<Digit, Star(Set(DigitSet \cup {","})), Opt(Str(".")), Rep(Digit, 0, 2, TRUE)>>)

\* [A-Z]{0,3}\s?\d[\d,]*\.?\d{0,2}
PrefixedAmountValue == Cat(<<Rep(Set(UpperSet), 0, 3, TRUE), Opt(Ws), AmountValue>>)

invoice_number_patterns ==
    << Cat(<<Str("invoice"), Star(Ws), Grp("1", Alt(<<Cat(<<Str("no"), Opt(Str("."))>>), Str("number")>>)),
             ColonOrSpaces, Grp("value", InvNoValue)>>),
       Cat(<<Str("inv"), Star(Ws), Str("#"), ColonOrSpaces, Grp("value", InvNoValue)>>),
       Cat(<<Str("invoiceno"), Opt(Str(".")), Star(Ws), Star(Set({"|", ":", "-"})), Star(Ws),
             Grp("value", Plus(NotSet(SpaceSet)))>>) >>

invoice_date_patterns ==
    << Cat(<<Str("invoice"), Star(Ws), Str("date"), ColonOrSpaces, Grp("value", DateValue)>>),
       Cat(<<Str("date"), ColonOrSpaces, Grp("value", DateValue)>>) >>

subtotal_patterns == << Cat(<<Str("subtotal"), Plus(Ws), Grp("value", AmountValue)>>) >>

discount_patterns ==
    << Cat(<<Str("discount"), Star(Ws), Opt(Set({"-", ":"})), Star(Ws), Grp("value", AmountValue)>>) >>

tax_rate_patterns ==
    << Cat(<<Str("tax"), Star(Ws), Str("rate"), Plus(Ws),
             Grp("value", Cat(<<Plus(Digit), Opt(Str(".")), Star(Digit), Str("%")>>))>>) >>

total_tax_patterns ==
    << Cat(<<Str("total"), Plus(Ws), Str("tax"), Plus(Ws), Grp("value", AmountValue)>>) >>

balance_due_patterns ==
    << Cat(<<Str("balance"), Plus(Ws), Str("due"), Plus(Ws), Grp("value", AmountValue)>>) >>

total_amount_patterns ==
    << Cat(<<Grp("1", Alt(<<Cat(<<Str("grand"), Star(Ws), Str("total")>>),
                            Cat(<<Str("total"), Star(Ws), Str("amount")>>),
                            Cat(<<Str("amount"), Star(Ws), Str("due")>>)>>)),
             ColonOrSpaces, Grp("value", PrefixedAmountValue)>>),
       Cat(<<WordBoundary, Str("total"), WordBoundary, ColonOrSpaces, Grp("value", PrefixedAmountValue)>>) >>

currency_patterns ==
    << Cat(<<WordBoundary, Grp("1", Alt(<<Str("USD"), Str("EUR"), Str("GBP"), Str("LKR"), Str("INR")>>)), WordBoundary>>),
       Grp("value", Str("Rs.")),
       Grp("value", Str("$")) >>

invoice_status_patterns ==
    << Cat(<<WordBoundary, Grp("1", Alt(<<Str("unpaid"), Str("paid"), Str("overdue"), Str("cancelled")>>)), WordBoundary>>) >>

supplier_name_patterns ==
    << Grp("value", Cat(<<Set(UpperSet), Plus(Set(UpperSet \cup DigitSet \cup {" ", "&"})), Str("PRIVATE LIMITED")>>)),
       Grp("value", Cat(<<Set(UpperSet), Plus(Set(UpperSet \cup LowerSet \cup DigitSet \cup {" ", "&"})),
                          Str("(PVT)"), Plus(Ws), Str("LTD")>>)) >>

customer_name_patterns ==
    << Grp("value", Cat(<<Set(UpperSet), Plus(Set(UpperSet \cup {" "})), Str("PLC")>>)) >>

payment_terms_patterns ==
    << Cat(<<Str("within"), Plus(Ws),
             Grp("value", Cat(<<Plus(Digit), Plus(Ws), Str("business"), Plus(Ws), Str("days")>>))>>),
       Grp("value", Cat(<<Plus(Digit), Star(Ws), Str("days")>>)) >>

bank_name_patterns ==
    << Grp("value", Cat(<<Set(UpperSet), Plus(Set(UpperSet \cup LowerSet \cup {" "})), Str(" Bank")>>)) >>

branch_patterns ==
    << Cat(<<WordBoundary, Str("branch"), ColonOrSpaces, Grp("value", Plus(Set(UpperSet \cup LowerSet \cup {" "})))>>),
       Cat(<<WordBoundary, Grp("value", Str("Attidiya")), WordBoundary>>) >>

account_number_patterns ==
    << Cat(<<WordBoundary, Grp("value", Rep(Digit, 8, Unbounded, TRUE)), WordBoundary>>) >>

payment_instructions_patterns ==
    << Grp("1", Cat(<<Str("Payment to be transferred"), Star(NotSet({"\n"}))>>)) >>

RECURSIVE _first_match_group1(_, _)
\* _first_match without the preference for the named group: always m.group(1)
_first_match_group1(patterns, txt) ==
    IF Len(patterns) = 0 THEN None
    ELSE LET m == ReSearch(Head(patterns), txt, TRUE)
         IN  IF m.ok
             THEN Strip(Group(m, txt, "1"))
             ELSE _first_match_group1(Tail(patterns), txt)

RECURSIVE _first_match_last(_, _)
\* the list tried from its end: the last pattern that matches wins
_first_match_last(patterns, txt) ==
    IF Len(patterns) = 0 THEN None
    ELSE LET later == _first_match_last(Tail(patterns), txt)
             m == ReSearch(Head(patterns), txt, TRUE)
         IN  IF later # None THEN later
             ELSE IF m.ok
             THEN (IF DefinesGroup(Head(patterns), "value")
                   THEN Strip(Group(m, txt, "value"))
                   ELSE Strip(Group(m, txt, "1")))
             ELSE None

RECURSIVE _first_match(_, _)
\* the value of the first pattern of the list that matches anywhere in text
_first_match(patterns, txt) ==
    IF Len(patterns) = 0 THEN None
    ELSE LET m == ReSearch(Head(patterns), txt, TRUE)
         IN  IF m.ok
             THEN (IF DefinesGroup(Head(patterns), "value")
                   THEN Strip(Group(m, txt, "value"))
                   ELSE Strip(Group(m, txt, "1")))
             ELSE _first_match(Tail(patterns), txt)

\* Python truth of an Optional[str]
Truthy(x) == x # None /\ x # ""

\* a or b
PyOr(a, b) == IF Truthy(a) THEN a ELSE b

\* InvoiceFields(): the dataclass defaults
InvoiceFieldsDefault ==
    [invoice_number |-> None, invoice_date |-> None, invoice_status |-> "UNPAID",
     subtotal |-> None, discount |-> None, tax_rate |-> None, total_tax |-> None,
     balance_due |-> None, total_amount |-> None, currency |-> None,
     supplier_name |-> None, supplier_address |-> None, supplier_email |-> None,
     supplier_phone |-> None, customer_name |-> None, billing_address |-> None,
     shipping_address |-> None, payment_terms |-> None, bank_name |-> None,
     branch |-> None, account_number |-> None, payment_instructions |-> None]

FieldNames == DOMAIN InvoiceFieldsDefault

\* the preference reversed: the generic total first, balance due as the fallback
TotalAmountGenericFirst(balance_due, normalized) ==
    PyOr(_first_match(total_amount_patterns, normalized), balance_due)

\* total_amount = balance_due or _first_match([...generic totals...])
TotalAmountOf(balance_due, normalized) ==
    PyOr(balance_due, _first_match(total_amount_patterns, normalized))

\* the status without the `or "UNPAID"` default
InvoiceStatusNoDefault(normalized) == _first_match(invoice_status_patterns, normalized)

\* invoice_status = _first_match([...]) or "UNPAID"
InvoiceStatusOf(normalized) ==
    PyOr(_first_match(invoice_status_patterns, normalized), "UNPAID")

parse_invoice_text(txt) ==
    LET normalized == CollapseRuns(txt, {" ", "\t"})
        balance_due == _first_match(balance_due_patterns, normalized)
    IN  [InvoiceFieldsDefault EXCEPT
            !.invoice_number = _first_match(invoice_number_patterns, normalized),
            !.invoice_date = _first_match(invoice_date_patterns, normalized),
            !.invoice_status = InvoiceStatusOf(normalized),
            !.subtotal = _first_match(subtotal_patterns, normalized),
            !.discount = _first_match(discount_patterns, normalized),
            !.tax_rate = _first_match(tax_rate_patterns, normalized),
            !.total_tax = _first_match(total_tax_patterns, normalized),
            !.balance_due = balance_due,
            !.total_amount = TotalAmountOf(balance_due, normalized),
            !.currency = _first_match(currency_patterns, normalized),
            !.supplier_name = _first_match(supplier_name_patterns, normalized),
            !.customer_name = _first_match(customer_name_patterns, normalized),
            !.payment_terms = _first_match(payment_terms_patterns, normalized),
            !.bank_name = _first_match(bank_name_patterns, normalized),
            !.branch = _first_match(branch_patterns, normalized),
            !.account_number = _first_match(account_number_patterns, normalized),
            !.payment_instructions = _first_match(payment_instructions_patterns, txt)]

(***************************************************************************)
(* Python values of line-item fields: a str, or a float by its repr        *)
(***************************************************************************)
PyStr(s) == [ty |-> "str", v |-> s]

PyFloat(repr) == [ty |-> "float", v |-> repr]

ValueError == [ty |-> "ValueError", v |-> ""]

CountCh(s, c) == Cardinality({j \in 1..Len(s) : Ch(s, j) = c})

\* float(s) for s made of digits, "." and ",": ValueError unless s is digits with at most
\* one "." and at least one digit; else the float, written as repr() writes it
float(s) ==
    LET dot == IndexOfCh(s, ".")
        ip == IF dot = 0 THEN s ELSE SubSeq(s, 1, dot - 1)
        fp == IF dot = 0 THEN "" ELSE SubSeq(s, dot + 1, Len(s))
        wellFormed == /\ \A j \in 1..Len(s) : Ch(s, j) \in DigitSet \cup {"."}
                      /\ CountCh(s, ".") <= 1
                      /\ Len(ip) + Len(fp) >= 1
        ipn == LStrip(ip, {"0"})
        fpn == RStrip(fp, {"0"})
    IN  IF ~wellFormed THEN ValueError
        ELSE PyFloat((IF ipn = "" THEN "0" ELSE ipn) \o "." \o (IF fpn = "" THEN "0" ELSE fpn))

IsFloat(x) == x.ty = "float"

(***************************************************************************)
(* text_parser.py: the line-item table extractor                           *)
(***************************************************************************)
RECURSIVE NormalizeEach(_)
\* [re.sub(r"\s+", " ", ln.strip()) for ln in raw_lines]
NormalizeEach(raw) ==
    IF Len(raw) = 0 THEN <<>>
    ELSE <<CollapseRuns(Strip(Head(raw)), SpaceSet)>> \o NormalizeEach(Tail(raw))

\* lines 16-18
NormalizedLines(txt) == NormalizeEach(SplitLines(txt))

\* description\s+qty\s+unit\s+price\s+(total|line\s+total), re.IGNORECASE
header_pattern ==
    Cat(<<Str("description"), Plus(Ws), Str("qty"), Plus(Ws), Str("unit"), Plus(Ws), Str("price"), Plus(Ws),
          Grp("1", Alt(<<Str("total"), Cat(<<Str("line"), Plus(Ws), Str("total")>>)>>))>>)

\* \d[\d,]*\.\d{2}
money_pattern == Cat(<<Digit, Star(Set(DigitSet \cup {","})), Str("."), Rep(Digit, 2, 2, TRUE)>>)

\* (subtotal|grand total|total tax|balance due)
terminal_pattern == Grp("1", Alt(<<Str("subtotal"), Str("grand total"), Str("total tax"), Str("balance due")>>))

\* header_index = None
NoIndex == 0

IsHeaderLine(line) == ReSearch(header_pattern, line, TRUE).ok

\* the early return left out: the table loop runs from the first line
HeaderMissingNever(h) == FALSE

\* if header_index is None: return items
HeaderMissing(h) == h = NoIndex

\* the totals test left out: no line ends the table
IsTerminalNever(line) == FALSE

\* a loop that gives up at the first line that is no row: such a line ends the table too
IsTerminalOrNoRow(line) ==
    ReSearch(terminal_pattern, Lower(line), FALSE).ok \/ Len(FindAll(money_pattern, line)) < 2

IsTerminalLine(line) == ReSearch(terminal_pattern, Lower(line), FALSE).ok

\* a money pattern that lost its decimals: every run of digits is an amount
AmountsAnyDigits(line) == FindAll(Plus(Digit), line)

\* amounts = money_pattern.findall(line)
Amounts(line) == FindAll(money_pattern, line)

\* len(amounts) >= 2
IsRow(amounts) == Len(amounts) >= 2

\* line[: first_amount_match.start()].strip(" -:")
CurrentDesc(line) ==
    LET first_amount_match == ReSearch(money_pattern, line, FALSE)
    IN  IF first_amount_match.ok
        THEN StripChars(SubSeq(line, 1, first_amount_match.b - 1), {" ", "-", ":"})
        ELSE ""

\* the two fragments joined without the separating space
JoinDescNoSpace(prev, cur) ==
    IF prev # "" /\ cur # "" THEN Strip(prev \o cur)
    ELSE IF cur # "" THEN cur
    ELSE IF prev # "" THEN prev
    ELSE ""

\* combine with the previous line when the description is split
JoinDesc(prev, cur) ==
    IF prev # "" /\ cur # "" THEN Strip(prev \o " " \o cur)
    ELSE IF cur # "" THEN cur
    ELSE IF prev # "" THEN prev
    ELSE ""

\* remove a trailing "as" artifact
DropTrailingAs(desc) ==
    IF EndsWith(Lower(desc), " as") THEN Strip(SubSeq(desc, 1, Len(desc) - 2)) ELSE desc

RowDescription(line, prev) == DropTrailingAs(Strip(JoinDesc(prev, CurrentDesc(line))))

MinDescLen == 10

\* a threshold that rejects only the empty description
TooShortOnlyEmpty(desc) == Len(desc) < 1

\* len(desc) < 10
TooShort(desc) == Len(desc) < MinDescLen

\* the conversion left out: the token is passed on as the string it is
ToAmountUnparsed(token) == PyStr(token)

\* float(token.replace(",", ""))
ToAmount(token) == float(Replace(token, ",", ""))

\* the dict appended for a row, or NoItem when the row is skipped
NoItem == [description |-> "", quantity |-> ValueError, unit_price |-> ValueError, line_total |-> ValueError]

ItemOrSkip(desc, unit_price, line_total) ==
    IF TooShort(desc) THEN NoItem
    ELSE IF unit_price = ValueError \/ line_total = ValueError THEN NoItem
    ELSE [description |-> desc, quantity |-> PyFloat("1.0"),
          unit_price |-> unit_price, line_total |-> line_total]

\* the unit price read from the first amount of the line
UnitPriceFirst(amounts) == amounts[1]

\* amounts[-2]
UnitPriceStr(amounts) == amounts[Len(amounts) - 1]

\* amounts[-1]
LineTotalStr(amounts) == amounts[Len(amounts)]

RowItemFrom(amounts, desc) ==
    ItemOrSkip(desc, ToAmount(UnitPriceStr(amounts)), ToAmount(LineTotalStr(amounts)))

RowItem(line, prev) == RowItemFrom(Amounts(line), RowDescription(line, prev))

\* the new item put in front of the list instead of at its end
PrependItem(its, it) == IF it = NoItem THEN its ELSE <<it>> \o its

\* items.append(...) unless the row was skipped
AppendItem(its, it) == IF it = NoItem THEN its ELSE Append(its, it)

(***************************************************************************)
(* invoice_parser.py: extract_line_items, the regex-row variant            *)
(***************************************************************************)
\* \d[\d,]*\.\d{1,2}
PriceToken == Cat(<<Digit, Star(Set(DigitSet \cup {","})), Str("."), Rep(Digit, 1, 2, TRUE)>>)

pattern_with_qty ==
    Cat(<<Grp("description", LazyPlus(AnyChar)), Plus(Ws),
          Grp("qty", Cat(<<Plus(Digit), Opt(Cat(<<Str("."), Plus(Digit)>>))>>)), Plus(Ws),
          Grp("unit_price", PriceToken), Plus(Ws),
          Grp("line_total", PriceToken)>>)

pattern_no_qty ==
    Cat(<<Grp("description", LazyPlus(AnyChar)), Plus(Ws),
          Grp("unit_price", PriceToken), Plus(Ws),
          Grp("line_total", PriceToken)>>)

\* "description" in lower and "qty" in lower
IsHeaderLineRegexVariant(line) == Contains(Lower(line), "description") /\ Contains(Lower(line), "qty")

RECURSIVE FirstHeaderRegexVariant(_, _)
FirstHeaderRegexVariant(ls, j) ==
    IF j > Len(ls) THEN NoIndex
    ELSE IF IsHeaderLineRegexVariant(ls[j]) THEN j
    ELSE FirstHeaderRegexVariant(ls, j + 1)

IsTerminalLineRegexVariant(line) ==
    \/ Contains(Lower(line), "subtotal")
    \/ Contains(Lower(line), "grand total")
    \/ Contains(Lower(line), "total tax")
    \/ Contains(Lower(line), "balance due")

RowItemRegexVariant(line) ==
    LET m == ReMatch(pattern_with_qty, line, FALSE)
        n == ReMatch(pattern_no_qty, line, FALSE)
    IN  IF m.ok
        THEN LET desc == StripChars(Group(m, line, "description"), {" ", "-", ":"})
             IN  IF desc = "" THEN NoItem
                 ELSE [description |-> desc, quantity |-> PyStr(Group(m, line, "qty")),
                       unit_price |-> PyStr(Group(m, line, "unit_price")),
                       line_total |-> PyStr(Group(m, line, "line_total"))]
        ELSE IF ~n.ok THEN NoItem
        ELSE LET desc == StripChars(Group(n, line, "description"), {" ", "-", ":"})
             IN  IF desc = "" THEN NoItem
                 ELSE [description |-> desc, quantity |-> PyStr("1"),
                       unit_price |-> PyStr(Group(n, line, "unit_price")),
                       line_total |-> PyStr(Group(n, line, "line_total"))]

RECURSIVE RegexVariantLoop(_, _, _)
RegexVariantLoop(ls, j, acc) ==
    IF j > Len(ls) THEN acc
    ELSE IF ls[j] = "" THEN RegexVariantLoop(ls, j + 1, acc)
    ELSE IF IsTerminalLineRegexVariant(ls[j]) THEN acc
    ELSE LET it == RowItemRegexVariant(ls[j])
         IN  RegexVariantLoop(ls, j + 1, IF it = NoItem THEN acc ELSE Append(acc, it))

invoice_parser_extract_line_items(txt) ==
    LET ls == NormalizedLines(txt)
        h == FirstHeaderRegexVariant(ls, 1)
    IN  IF h = NoIndex THEN <<>> ELSE RegexVariantLoop(ls, h + 1, <<>>)

(***************************************************************************)
(* Inputs: OCR texts, built of lines joined by line breaks                 *)
(***************************************************************************)
MaxFieldLines == 2

MaxTableLines == 3

RECURSIVE JoinLines(_)
JoinLines(ls) ==
    IF Len(ls) = 0 THEN ""
    ELSE IF Len(ls) = 1 THEN ls[1]
    ELSE ls[1] \o "\n" \o JoinLines(Tail(ls))

SeqsUpTo(S, n) == UNION {[1..m -> S] : m \in 0..n}

\* lines of an invoice's header and footer blocks
FieldLinePool ==
    { "Invoice No: ABC-123",
      "Invoice No: X1",
      "INVOICENO. | SEP25-7",
      "Invoice Date: 3/4/2024",
      "Date: 1/2/2024",
      "Grand Total 150,000.00",
      "Balance Due 135,000.00",
      "Total:\tLKR  90.00",
      "Status: Paid",
      "Branch: 123",
      "Branch:  Attidiya ",
      "Prepaid plan, due in 30 days",
      "" }

FieldTexts == {JoinLines(ls) : ls \in SeqsUpTo(FieldLinePool, MaxFieldLines)}

HeaderLine == "Description  Qty  Unit Price  Total"

\* lines of an invoice's item table and its surroundings
TableLinePool ==
    { HeaderLine,
      "Widget A  2  500.00  1000.00",
      "Shipping Fee 500.00",
      "Setup 1,200.00 1,200.00",
      "Sold as 3.00 4.00 5.50",
      "- 10.00 10.00",
      "Subtotal 1,700.00 1,700.00",
      "" }

FirstLinePool ==
    { HeaderLine,
      "DESCRIPTION QTY UNIT PRICE LINE TOTAL",
      "Description Qty Price",
      "Hosting Plan 12.00 12.00" }

TableTexts == {JoinLines(<<first>> \o ls) : first \in FirstLinePool, ls \in SeqsUpTo(TableLinePool, MaxTableLines)}

(***************************************************************************)
(* State                                                                   *)
(***************************************************************************)
VARIABLES
    text,            \* the OCR text handed to the extractors
    pc,              \* where the run is
    fields,          \* parse_invoice_text: the InvoiceFields returned
    lines,           \* extract_line_items: the normalized lines
    line_no,         \* extract_line_items: number of the line the loop is at
    header_index,    \* extract_line_items: header_index
    prev_desc_line,  \* extract_line_items: prev_desc_line
    items,           \* extract_line_items: items
    regex_items,     \* invoice_parser.extract_line_items: its result
    program,         \* process_file: the module it is run from, "main" or "erp"
    input_name,      \* process_file: input_path.name
    json_written,    \* process_file: the JSON sidecars written
    calls,           \* process_file: the repository calls made, in order
    result           \* process_file: how the call ended

procVars == <<program, input_name, json_written, calls, result>>

vars == <<text, pc, fields, lines, line_no, header_index, prev_desc_line, items, regex_items, procVars>>

tableVars == <<lines, line_no, header_index, prev_desc_line, items, regex_items>>

NotRun == <<"not run">>

\* process_file has not returned
Running == [kind |-> "running", v |-> ""]

InitCommon ==
    /\ fields = InvoiceFieldsDefault
    /\ lines = <<>>
    /\ line_no = 0
    /\ header_index = NoIndex
    /\ prev_desc_line = ""
    /\ items = <<>>
    /\ regex_items = NotRun
    /\ program = ""
    /\ input_name = ""
    /\ json_written = <<>>
    /\ calls = <<>>
    /\ result = Running

(***************************************************************************)
(* parse_invoice_text                                                      *)
(***************************************************************************)
InitFields ==
    /\ text \in FieldTexts
    /\ pc = "parse"
    /\ InitCommon

ParseInvoiceText ==
    /\ pc = "parse"
    /\ fields' = parse_invoice_text(text)
    /\ pc' = "parsed"
    /\ UNCHANGED <<procVars, text, tableVars>>

NextFields == ParseInvoiceText

SpecFields == InitFields /\ [][NextFields]_vars

(***************************************************************************)
(* text_parser.extract_line_items, one loop iteration per step             *)
(***************************************************************************)
InitTable ==
    /\ text \in TableTexts
    /\ pc = "extract"
    /\ InitCommon

\* lines 16-26: split and normalize, items = [], header_index = None
Enter ==
    /\ pc = "extract"
    /\ lines' = NormalizedLines(text)
    /\ items' = <<>>
    /\ header_index' = NoIndex
    /\ line_no' = 1
    /\ pc' = "seek"
    /\ UNCHANGED <<procVars, text, fields, prev_desc_line, regex_items>>

\* lines 28-31: a line that is not the header
SeekSkip ==
    /\ pc = "seek"
    /\ line_no <= Len(lines)
    /\ ~IsHeaderLine(lines[line_no])
    /\ line_no' = line_no + 1
    /\ UNCHANGED <<procVars, text, pc, fields, lines, header_index, prev_desc_line, items, regex_items>>

\* lines 29-31: the header line; break
SeekFound ==
    /\ pc = "seek"
    /\ line_no <= Len(lines)
    /\ IsHeaderLine(lines[line_no])
    /\ header_index' = line_no
    /\ pc' = "sought"
    /\ UNCHANGED <<procVars, text, fields, lines, line_no, prev_desc_line, items, regex_items>>

\* the loop of line 28 runs out of lines
SeekExhausted ==
    /\ pc = "seek"
    /\ line_no > Len(lines)
    /\ pc' = "sought"
    /\ UNCHANGED <<procVars, text, fields, lines, line_no, header_index, prev_desc_line, items, regex_items>>

\* lines 33-34: return items when there is no header
ReturnNoHeader ==
    /\ pc = "sought"
    /\ HeaderMissing(header_index)
    /\ pc' = "done"
    /\ UNCHANGED <<procVars, text, fields, lines, line_no, header_index, prev_desc_line, items, regex_items>>

\* lines 36-40: prev_desc_line = "", the loop starts below the header
EnterTable ==
    /\ pc = "sought"
    /\ ~HeaderMissing(header_index)
    /\ prev_desc_line' = ""
    /\ line_no' = header_index + 1
    /\ pc' = "table"
    /\ UNCHANGED <<procVars, text, fields, lines, header_index, items, regex_items>>

\* lines 41-42: an empty line
TableBlank ==
    /\ pc = "table"
    /\ line_no <= Len(lines)
    /\ lines[line_no] = ""
    /\ line_no' = line_no + 1
    /\ UNCHANGED <<procVars, text, pc, fields, lines, header_index, prev_desc_line, items, regex_items>>

\* lines 44-50: a totals line; break, then return items
TableBreak ==
    /\ pc = "table"
    /\ line_no <= Len(lines)
    /\ lines[line_no] # ""
    /\ IsTerminalLine(lines[line_no])
    /\ pc' = "done"
    /\ UNCHANGED <<procVars, text, fields, lines, line_no, header_index, prev_desc_line, items, regex_items>>

\* lines 52-95: a line with two or more amounts
TableRow ==
    /\ pc = "table"
    /\ line_no <= Len(lines)
    /\ lines[line_no] # ""
    /\ ~IsTerminalLine(lines[line_no])
    /\ IsRow(Amounts(lines[line_no]))
    /\ items' = AppendItem(items, RowItem(lines[line_no], prev_desc_line))
    /\ line_no' = line_no + 1
    /\ UNCHANGED <<procVars, text, pc, fields, lines, header_index, prev_desc_line, regex_items>>

\* lines 96-98: any other line is kept as a possible description
TablePending ==
    /\ pc = "table"
    /\ line_no <= Len(lines)
    /\ lines[line_no] # ""
    /\ ~IsTerminalLine(lines[line_no])
    /\ ~IsRow(Amounts(lines[line_no]))
    /\ prev_desc_line' = lines[line_no]
    /\ line_no' = line_no + 1
    /\ UNCHANGED <<procVars, text, pc, fields, lines, header_index, items, regex_items>>

\* line 100: the loop runs out of lines; return items
TableEnd ==
    /\ pc = "table"
    /\ line_no > Len(lines)
    /\ pc' = "done"
    /\ UNCHANGED <<procVars, text, fields, lines, line_no, header_index, prev_desc_line, items, regex_items>>

\* invoice_parser.extract_line_items on the same text
RegexVariantExtract ==
    /\ pc = "done"
    /\ regex_items' = invoice_parser_extract_line_items(text)
    /\ pc' = "compared"
    /\ UNCHANGED <<procVars, text, fields, lines, line_no, header_index, prev_desc_line, items>>

NextTable ==
    \/ Enter
    \/ SeekSkip
    \/ SeekFound
    \/ SeekExhausted
    \/ ReturnNoHeader
    \/ EnterTable
    \/ TableBlank
    \/ TableBreak
    \/ TableRow
    \/ TablePending
    \/ TableEnd
    \/ RegexVariantExtract

SpecTable == InitTable /\ [][NextTable]_vars

(***************************************************************************)
(* text_parser.extract_line_items as one call                              *)
(***************************************************************************)
RECURSIVE FirstHeader(_, _)
\* the header loop: the number of the first header line, NoIndex when there is none
FirstHeader(ls, j) ==
    IF j > Len(ls) THEN NoIndex
    ELSE IF IsHeaderLine(ls[j]) THEN j
    ELSE FirstHeader(ls, j + 1)

RECURSIVE TableLoop(_, _, _, _)
\* the table loop from line j on, with prev_desc_line = prev and items = acc
TableLoop(ls, j, prev, acc) ==
    IF j > Len(ls) THEN acc
    ELSE IF ls[j] = "" THEN TableLoop(ls, j + 1, prev, acc)
    ELSE IF IsTerminalLine(ls[j]) THEN acc
    ELSE IF IsRow(Amounts(ls[j]))
         THEN TableLoop(ls, j + 1, prev, AppendItem(acc, RowItem(ls[j], prev)))
         ELSE TableLoop(ls, j + 1, ls[j], acc)

ItemsBelow(ls, h) == IF HeaderMissing(h) THEN <<>> ELSE TableLoop(ls, h + 1, "", <<>>)

ItemsOfLines(ls) == ItemsBelow(ls, FirstHeader(ls, 1))

text_parser_extract_line_items(txt) == ItemsOfLines(NormalizedLines(txt))

(***************************************************************************)
(* main.py and erp.py: process_file                                        *)
(***************************************************************************)
\* U+2014 EM DASH, written here with an ASCII character that the code treats the same
\* way: it is no white space, no word character and in no class of the patterns
EmDash == "~"

\* the OCR separator artifact: an em dash and an underscore
SeparatorArtifact == EmDash \o "_"

\* the last position of c in s, 0 when there is none
LastIndexOfCh(s, c) ==
    LET at == {j \in 1..Len(s) : Ch(s, j) = c}
    IN  IF at = {} THEN 0 ELSE Max(at)

\* is position dot of name the dot that opens the suffix
OpensSuffix(name, dot) == dot > 1 /\ dot < Len(name)

\* input_path.suffix
PathSuffix(name) ==
    IF OpensSuffix(name, LastIndexOfCh(name, "."))
    THEN SubSeq(name, LastIndexOfCh(name, "."), Len(name))
    ELSE ""

\* input_path.stem
PathStem(name) ==
    IF OpensSuffix(name, LastIndexOfCh(name, "."))
    THEN SubSeq(name, 1, LastIndexOfCh(name, ".") - 1)
    ELSE name

\* suffix in {".png", ".jpg", ".jpeg"} or suffix == ".pdf"
IsSupported(name) == Lower(PathSuffix(name)) \in {".png", ".jpg", ".jpeg", ".pdf"}

\* main.py: fields.invoice_number.strip().replace("—_", "")
CleanMain(number) == Replace(Strip(number), SeparatorArtifact, "")

\* erp.py: .strip().replace("—_", "").replace("—", "").replace("_", "")
CleanErp(number) ==
    Replace(Replace(Replace(Strip(number), SeparatorArtifact, ""), EmDash, ""), "_", "")

CleanInvoiceNumber(prog, number) ==
    IF prog = "erp" THEN CleanErp(number) ELSE CleanMain(number)

\* if not fields.invoice_number: fields.invoice_number = input_path.stem
WithFilenameFallback(f, name) ==
    IF Truthy(f.invoice_number) THEN f ELSE [f EXCEPT !.invoice_number = PathStem(name)]

\* if fields.invoice_number: fields.invoice_number = <cleaned>
WithCleanNumber(prog, f) ==
    IF Truthy(f.invoice_number)
    THEN [f EXCEPT !.invoice_number = CleanInvoiceNumber(prog, f.invoice_number)]
    ELSE f

\* any(fields_dict.values())
AnyFieldValue(f) == \E k \in FieldNames : Truthy(f[k])

\* how process_file ends
ReturnedNone == [kind |-> "None", v |-> ""]

ReturnedNumber(number) == [kind |-> "str", v |-> number]

Raised == [kind |-> "raised", v |-> ""]

\* a repository call: the function, the invoice number it is given, the number of item
\* rows it is given, and what the database did
Call(fn, number, rows, outcome) ==
    [fn |-> fn, invoice_number |-> number, rows |-> rows, outcome |-> outcome]

\* what a call of insert_invoice can do: commit the row; fail in execute/commit, which
\* it rolls back and swallows; or raise from get_connection(), outside its try
InsertOutcomes == {"committed", "rolled back", "raised"}

\* names of the files handed to process_file
InputNames == {"INV7.pdf", "~_B2.PNG", "~~__C3.jpg", "scan_9.jpeg", "notes.txt"}

\* texts the OCR engine returns for them
OcrTexts ==
    { "",
      "Page 1 of 1",
      "Invoice No: ABC-123",
      "INVOICENO. | ~_SEP25-7",
      "INVOICENO. ~~__X1",
      "Status: Paid\nGrand Total 150,000.00",
      "Invoice No: X1\n" \o HeaderLine \o "\nWidget A  2  500.00  1000.00",
      HeaderLine \o "\nShipping Fee 500.00" }

InitProcess ==
    /\ program \in {"main", "erp"}
    /\ input_name \in InputNames
    /\ text \in OcrTexts
    /\ pc = "ocr"
    /\ fields = InvoiceFieldsDefault
    /\ lines = <<>>
    /\ line_no = 0
    /\ header_index = NoIndex
    /\ prev_desc_line = ""
    /\ items = <<>>
    /\ regex_items = NotRun
    /\ json_written = <<>>
    /\ calls = <<>>
    /\ result = Running

\* the else branch of the suffix test: return None
SkipUnsupported ==
    /\ pc = "ocr"
    /\ ~IsSupported(input_name)
    /\ result' = ReturnedNone
    /\ pc' = "exited"
    /\ UNCHANGED <<text, fields, lines, line_no, header_index, prev_desc_line, items,
                   regex_items, program, input_name, json_written, calls>>

\* OCR, the text sidecar, and fields = parse_invoice_text(text)
ParseOcrText ==
    /\ pc = "ocr"
    /\ IsSupported(input_name)
    /\ fields' = parse_invoice_text(text)
    /\ pc' = "postprocess"
    /\ UNCHANGED <<text, lines, line_no, header_index, prev_desc_line, items,
                   regex_items, procVars>>

\* the filename-stem fallback, then the artifact stripping
PostProcess ==
    /\ pc = "postprocess"
    /\ fields' = WithCleanNumber(program, WithFilenameFallback(fields, input_name))
    /\ pc' = "persist"
    /\ UNCHANGED <<text, lines, line_no, header_index, prev_desc_line, items,
                   regex_items, procVars>>

\* the any(fields_dict.values()) test: write the JSON sidecar, or return None
WriteJson ==
    /\ pc = "persist"
    /\ IF AnyFieldValue(fields)
       THEN /\ json_written' = Append(json_written, fields)
            /\ pc' = "resolve"
            /\ UNCHANGED result
       ELSE /\ result' = ReturnedNone
            /\ pc' = "exited"
            /\ UNCHANGED json_written
    /\ UNCHANGED <<text, fields, lines, line_no, header_index, prev_desc_line, items,
                   regex_items, program, input_name, calls>>

\* get_or_create_supplier(fields_dict), get_or_create_customer(fields_dict)
ResolveParties ==
    /\ pc = "resolve"
    /\ calls' = calls \o << Call("get_or_create_supplier", fields.invoice_number, 0, "committed"),
                           Call("get_or_create_customer", fields.invoice_number, 0, "committed") >>
    /\ pc' = "insert_invoice"
    /\ UNCHANGED <<text, fields, lines, line_no, header_index, prev_desc_line, items,
                   regex_items, program, input_name, json_written, result>>

\* insert_invoice(fields_dict): erp.py catches what it raises and returns None, main.py
\* lets it through
InsertInvoice ==
    /\ pc = "insert_invoice"
    /\ \E outcome \in InsertOutcomes :
          /\ calls' = Append(calls, Call("insert_invoice", fields.invoice_number, 0, outcome))
          /\ IF outcome = "raised"
             THEN /\ result' = IF program = "erp" THEN ReturnedNone ELSE Raised
                  /\ pc' = "exited"
             ELSE /\ pc' = "line_items"
                  /\ UNCHANGED result
    /\ UNCHANGED <<text, fields, lines, line_no, header_index, prev_desc_line, items,
                   regex_items, program, input_name, json_written>>

\* the calls made for the items extracted: insert_line_items when there are any
LineItemCalls(number, its) ==
    IF its = <<>> THEN <<>> ELSE << Call("insert_line_items", number, Len(its), "committed") >>

\* if fields.invoice_number: extract the items and insert them; return the number
InsertLineItems ==
    /\ pc = "line_items"
    /\ IF Truthy(fields.invoice_number)
       THEN /\ items' = text_parser_extract_line_items(text)
            /\ calls' = calls \o LineItemCalls(fields.invoice_number, items')
       ELSE UNCHANGED <<items, calls>>
    /\ result' = ReturnedNumber(fields.invoice_number)
    /\ pc' = "exited"
    /\ UNCHANGED <<text, fields, lines, line_no, header_index, prev_desc_line,
                   regex_items, program, input_name, json_written>>

NextProcess ==
    \/ SkipUnsupported
    \/ ParseOcrText
    \/ PostProcess
    \/ WriteJson
    \/ ResolveParties
    \/ InsertInvoice
    \/ InsertLineItems

SpecProcess == InitProcess /\ [][NextProcess]_vars

(***************************************************************************)
(* Properties of parse_invoice_text (SpecFields)                           *)
(***************************************************************************)
Parsed == pc = "parsed"

\* the first position at which sub occurs in s, 0 when it does not
FirstIndexOf(s, sub) ==
    LET at == {j \in 1..(Len(s) - Len(sub) + 1) : SubSeq(s, j, j + Len(sub) - 1) = sub}
    IN  IF at = {} THEN 0 ELSE Min(at)

LabeledToken == "Invoice No: ABC-123"

\* the leftmost "invoice" of the text, in any case, opens the token "Invoice No: ABC-123",
\* and white space or the end of the text follows the token
TokenIsLeftmostLabel ==
    LET at == FirstIndexOf(Lower(text), "invoice")
        end == at + Len(LabeledToken)
    IN  /\ at > 0
        /\ end - 1 <= Len(text)
        /\ SubSeq(text, at, end - 1) = LabeledToken
        /\ (end > Len(text) \/ Ch(text, end) \in SpaceSet)

NoStatusKeyword ==
    /\ ~Contains(Lower(text), "paid")
    /\ ~Contains(Lower(text), "overdue")
    /\ ~Contains(Lower(text), "cancelled")

\* C2: a text in which none of the status keywords paid, unpaid, overdue, cancelled
\* occurs yields invoice_status = "UNPAID", and invoice_status is never absent.
C2_StatusDefaultsToUnpaid ==
    Parsed => /\ Truthy(fields.invoice_status)
              /\ NoStatusKeyword => fields.invoice_status = "UNPAID"

C2_Witness ==
    /\ Parsed
    /\ NoStatusKeyword
    /\ text # ""
    /\ fields.invoice_status = "UNPAID"

\* C3: when a balance-due value is found, total_amount is that value whatever generic
\* totals the text holds and wherever they stand; a generic total is used only when
\* balance_due is absent.
C3_BalanceDueTakesPrecedence ==
    Parsed => /\ fields.balance_due # None => fields.total_amount = fields.balance_due
              /\ fields.total_amount # fields.balance_due => fields.balance_due = None
              /\ (Contains(text, "Balance Due 135,000.00") /\ Contains(text, "Grand Total 150,000.00"))
                    => fields.total_amount = "135,000.00"

C3_Witness ==
    /\ Parsed
    /\ text = "Grand Total 150,000.00\nBalance Due 135,000.00"
    /\ fields.balance_due = "135,000.00"
    /\ fields.total_amount = "135,000.00"

\* C9 as the claim states it: every attribute of the returned InvoiceFields is absent
\* or a trimmed, non-empty string.
C9_NoEmptyAttribute ==
    Parsed => \A f \in FieldNames :
                 fields[f] = None \/ (fields[f] # "" /\ Strip(fields[f]) = fields[f])

(***************************************************************************)
(* Properties of extract_line_items (SpecTable)                            *)
(***************************************************************************)
Returned == pc \in {"done", "compared"}

\* the count of monetary tokens (digits with optional thousands separators and exactly
\* two decimals) of a line
MoneyTokenCount(line) == Len(FindAll(money_pattern, line))

\* C4: when no line is recognized as the table header, the result is empty, however
\* many lines of the text look like item rows; for both extractors.
C4_NoHeaderNoItems ==
    /\ header_index = NoIndex => items = <<>>
    /\ (pc = "compared" /\ \A j \in 1..Len(lines) : ~IsHeaderLineRegexVariant(lines[j]))
          => regex_items = <<>>

C4_Witness ==
    /\ pc = "compared"
    /\ header_index = NoIndex
    /\ \E j \in 1..Len(lines) : MoneyTokenCount(lines[j]) >= 2 /\ ~IsTerminalLine(lines[j])
    /\ \A j \in 1..Len(lines) : ~IsHeaderLineRegexVariant(lines[j])
    /\ items = <<>>
    /\ regex_items = <<>>

\* C5 as the claim states it: the header followed by the row
\* "Widget A  2  500.00  1000.00" yields one LineItem with description "Widget A",
\* quantity "2", unit_price "500.00" and line_total "1000.00".
C5_QuantityColumnRead ==
    (pc = "done" /\ text = HeaderLine \o "\n" \o "Widget A  2  500.00  1000.00")
        => items = << [description |-> "Widget A", quantity |-> PyStr("2"),
                       unit_price |-> PyStr("500.00"), line_total |-> PyStr("1000.00")] >>

\* a table line was just passed that holds fewer than two monetary tokens
IsTableLine(j) == header_index # NoIndex /\ j > header_index /\ j <= Len(lines)

\* C6: a table line with fewer than two monetary tokens never produces a LineItem; the
\* LineItems emitted so far are at most the table lines passed that hold two or more.
C6_FewerThanTwoAmountsNoItem ==
    /\ [](header_index # NoIndex =>
            Len(items) <= Cardinality({j \in (header_index + 1)..(line_no - 1) :
                                          j <= Len(lines) /\ MoneyTokenCount(lines[j]) >= 2}))
    /\ [][Len(items') # Len(items) =>
            /\ Len(items') = Len(items) + 1
            /\ IsTableLine(line_no)
            /\ MoneyTokenCount(lines[line_no]) >= 2]_vars

C6_Witness ==
    /\ pc = "done"
    /\ \E j \in 1..Len(lines) : IsTableLine(j) /\ j < line_no /\ MoneyTokenCount(lines[j]) = 1
    /\ Len(items) = 1

\* the line above the current one is a table line that is not a row
PendingLineAbove ==
    /\ IsTableLine(line_no - 1)
    /\ lines[line_no - 1] # ""
    /\ ~IsTerminalLine(lines[line_no - 1])
    /\ MoneyTokenCount(lines[line_no - 1]) < 2

\* the current line is a row line: not empty, no totals line, two or more amounts
AtRowLine ==
    /\ pc = "table"
    /\ IsTableLine(line_no)
    /\ lines[line_no] # ""
    /\ ~IsTerminalLine(lines[line_no])
    /\ MoneyTokenCount(lines[line_no]) >= 2

PendingThenOwn == lines[line_no - 1] \o " " \o CurrentDesc(lines[line_no])

\* C7 as the claim states it: a row below a pending line gets the description
\* "<pending line> <row's own description>", and is emitted whenever that joined
\* description reaches the minimum length.
C7_PendingSpaceOwn ==
    [][(AtRowLine /\ PendingLineAbove) =>
          /\ Len(PendingThenOwn) >= MinDescLen => Len(items') = Len(items) + 1
          /\ Len(items') = Len(items) + 1 => items'[Len(items')].description = PendingThenOwn]_vars

\* the joined description of the amended claim
JoinedDescription ==
    LET own == CurrentDesc(lines[line_no])
        joined == IF own = "" THEN lines[line_no - 1] ELSE lines[line_no - 1] \o " " \o own
    IN  IF EndsWith(Lower(joined), " as") THEN Strip(SubSeq(joined, 1, Len(joined) - 2)) ELSE joined

\* C7, amended: a row below a pending line gets the pending line, a single space and
\* the row's own description text (the pending line alone when the row has no text of
\* its own), less a trailing " as"; the minimum length is checked on this joined
\* description, so the row is emitted exactly when the joined description reaches it.
C7_JoinedBeforeLengthCheck ==
    [][(AtRowLine /\ PendingLineAbove) =>
          /\ Len(JoinedDescription) >= MinDescLen <=> Len(items') = Len(items) + 1
          /\ Len(items') = Len(items) + 1 => items'[Len(items')].description = JoinedDescription]_vars

\* a row whose own fragment "Setup" is below the threshold was emitted under the pending
\* line "Shipping Fee 500.00"
C7_Witness ==
    /\ pc = "table"
    /\ line_no > 2
    /\ IsTableLine(line_no - 2)
    /\ lines[line_no - 2] = "Shipping Fee 500.00"
    /\ lines[line_no - 1] = "Setup 1,200.00 1,200.00"
    /\ Len(items) >= 1
    /\ items[Len(items)].description = "Shipping Fee 500.00 Setup"

\* C10: every LineItem returned has a unit_price and a line_total that are the numbers
\* their tokens convert to once the thousands separators are removed.
C10_AmountsAreNumbers ==
    \A k \in 1..Len(items) : IsFloat(items[k].unit_price) /\ IsFloat(items[k].line_total)

C10_Witness ==
    /\ Returned
    /\ \E k \in 1..Len(items) :
          items[k].unit_price = PyFloat("1200.0") /\ items[k].line_total = PyFloat("1200.0")

\* C11: the result is in document order and a row line yields at most one LineItem:
\* items changes only in the step over a row line, by one item appended behind the
\* items of the lines above, and the loop then moves on to the next line for good.
C11_DocumentOrder ==
    [][/\ pc = "table" => line_no' >= line_no
       /\ items' # items =>
             /\ AtRowLine
             /\ line_no' = line_no + 1
             /\ Len(items') = Len(items) + 1
             /\ SubSeq(items', 1, Len(items)) = items]_vars

\* two different items, the first from the line above the second's
C11_Witness ==
    /\ pc = "done"
    /\ Len(lines) = 4
    /\ lines[2] = "Widget A 2 500.00 1000.00"
    /\ lines[4] = "Setup 1,200.00 1,200.00"
    /\ Len(items) = 2
    /\ items[1].description = "Widget A 2"
    /\ items[2].description = "Shipping Fee 500.00 Setup"

\* a line that holds one of the terminal keywords, in any case
TerminalKeywordLine(line) ==
    \E kw \in {"subtotal", "grand total", "total tax", "balance due"} : Contains(Lower(line), kw)

\* the last non-empty table line above line j that holds fewer than two monetary
\* tokens, "" when there is none
PendingAt(j) ==
    LET ks == {k \in (header_index + 1)..(j - 1) : lines[k] # "" /\ MoneyTokenCount(lines[k]) < 2}
    IN  IF ks = {} THEN "" ELSE lines[Max(ks)]

\* line j holds two or more monetary tokens and its description is long enough
ItemLine(j) ==
    /\ lines[j] # ""
    /\ MoneyTokenCount(lines[j]) >= 2
    /\ Len(RowDescription(lines[j], PendingAt(j))) >= MinDescLen

\* C12: a table line that is no item does not end the extraction: the loop stops only
\* at the first terminal-keyword line or at the end of the text, and the result holds
\* one LineItem for every line before that which has two or more monetary tokens and a
\* long-enough description.
C12_MalformedLinesSkipped ==
    (Returned /\ header_index # NoIndex) =>
        /\ line_no > Len(lines) \/ TerminalKeywordLine(lines[line_no])
        /\ \A j \in (header_index + 1)..(line_no - 1) : ~TerminalKeywordLine(lines[j])
        /\ Len(items) = Cardinality({j \in (header_index + 1)..(line_no - 1) : ItemLine(j)})

\* a row with too short a description and a line with one amount, then a row that is
\* emitted
C12_Witness ==
    /\ pc = "done"
    /\ Len(lines) = 4
    /\ header_index = 1
    /\ lines[2] = "- 10.00 10.00"
    /\ lines[3] = "Shipping Fee 500.00"
    /\ Len(items) = 1
    /\ items[1].description = "Shipping Fee 500.00 Widget A 2"

\* a line with a "description" token and a quantity token ("qty" or "quantity"), in
\* any case
HasDescriptionAndQuantity(line) ==
    /\ Contains(Lower(line), "description")
    /\ Contains(Lower(line), "qty") \/ Contains(Lower(line), "quantity")

\* C13 as the claim states it: the header search ends with the first line from the top
\* that holds a "description" token and a quantity token, whatever other column labels
\* the line has or lacks, and with no header when there is no such line.
C13_FirstDescQtyLineIsHeader ==
    pc \in {"sought", "table", "done", "compared"} =>
        LET hs == {j \in 1..Len(lines) : HasDescriptionAndQuantity(lines[j])}
        IN  header_index = IF hs = {} THEN NoIndex ELSE Min(hs)

\* the numbers of the lines below line h that hold a terminal keyword
TerminalLinesBelow(h) == {j \in (h + 1)..Len(lines) : TerminalKeywordLine(lines[j])}

\* C14: FINISHED is terminal. When a line below the header holds a terminal keyword,
\* the loop stops at the first such line and the result is exactly the items of the
\* lines between the header and that line, whatever stands on that line and below it;
\* once the extractor has returned, items never changes. The regex-row extractor
\* likewise returns what it returns for the text cut off above that line.
C14_FinishedIsTerminal ==
    /\ []((Returned /\ header_index # NoIndex /\ TerminalLinesBelow(header_index) # {}) =>
            LET t == Min(TerminalLinesBelow(header_index))
            IN  /\ line_no = t
                /\ Len(items) = Cardinality({j \in (header_index + 1)..(t - 1) : ItemLine(j)}))
    /\ []((pc = "compared" /\ FirstHeaderRegexVariant(lines, 1) # NoIndex
              /\ TerminalLinesBelow(FirstHeaderRegexVariant(lines, 1)) # {}) =>
            LET t == Min(TerminalLinesBelow(FirstHeaderRegexVariant(lines, 1)))
            IN  regex_items = invoice_parser_extract_line_items(JoinLines(SubSeq(lines, 1, t - 1))))
    /\ [][Returned => items' = items]_vars

\* a row above the totals line was collected, the row below it was not
C14_Witness ==
    /\ pc = "compared"
    /\ Len(lines) = 4
    /\ header_index = 1
    /\ lines[2] = "Widget A 2 500.00 1000.00"
    /\ lines[3] = "Subtotal 1,700.00 1,700.00"
    /\ lines[4] = "Widget A 2 500.00 1000.00"
    /\ Len(items) = 1
    /\ Len(regex_items) = 1

\* the monetary tokens of the current line, left to right
RowTokens == FindAll(money_pattern, lines[line_no])

\* the text of the current line before its first monetary token, with the spaces,
\* dashes and colons at its ends removed
DescriptionCandidate ==
    LET before == SubSeq(lines[line_no], 1, FirstIndexOf(lines[line_no], RowTokens[1]) - 1)
    IN  StripChars(before, {" ", "-", ":"})

\* C15: the LineItem emitted for a row with n >= 2 monetary tokens has the number of
\* the (n-1)-th token as unit_price and the number of the n-th token as line_total,
\* for n > 2 too, and its description is built from the text before the first
\* monetary token with space, dash and colon artifacts stripped.
C15_LastTwoTokens ==
    [][(AtRowLine /\ Len(items') = Len(items) + 1) =>
          LET n == Len(RowTokens)
              it == items'[Len(items')]
          IN  /\ n >= 2
              /\ it.unit_price = float(Replace(RowTokens[n - 1], ",", ""))
              /\ it.line_total = float(Replace(RowTokens[n], ",", ""))
              /\ it.description =
                    DropTrailingAs(Strip(JoinDesc(prev_desc_line, DescriptionCandidate)))
              /\ prev_desc_line = "" => it.description = DropTrailingAs(DescriptionCandidate)]_vars

\* a row with three monetary tokens was emitted with the second and the third
C15_Witness ==
    /\ pc = "table"
    /\ line_no > 2
    /\ lines[line_no - 1] = "Sold as 3.00 4.00 5.50"
    /\ Len(items) >= 1
    /\ items[Len(items)].unit_price = PyFloat("4.0")
    /\ items[Len(items)].line_total = PyFloat("5.5")
    /\ items[Len(items)].description = "Shipping Fee 500.00 Sold"

\* C16 as the claim states it: a retained line is used up by the next emitted row, so a
\* row that directly follows an emitted row gets a description made of its own text
\* alone (with or without the removal of a trailing " as").
C16_PendingConsumedOnce ==
    [][(AtRowLine /\ IsTableLine(line_no - 1) /\ ItemLine(line_no - 1)
            /\ Len(items') = Len(items) + 1) =>
          items'[Len(items')].description
              \in {DescriptionCandidate, DropTrailingAs(DescriptionCandidate)}]_vars

\* the description of the row at the current line after reassembly with the retained
\* line and artifact stripping
ReassembledDescription ==
    DropTrailingAs(Strip(JoinDesc(prev_desc_line, DescriptionCandidate)))

\* C17: every LineItem of extract_line_items has a description of at least the minimum
\* length (10), measured after reassembly and after the removal of a trailing " as";
\* a row whose description is shorter is discarded; the regex-row extractor returns no
\* item with an empty description.
C17_DescriptionLongEnough ==
    /\ [](\A k \in 1..Len(items) :
             /\ Len(items[k].description) >= MinDescLen
             /\ items[k].description # "")
    /\ [](pc = "compared" => \A k \in 1..Len(regex_items) : regex_items[k].description # "")
    /\ [][(AtRowLine /\ Len(ReassembledDescription) < MinDescLen) => items' = items]_vars

\* the row "Setup ..." was discarded, the row "Widget A 2 ..." of exactly 10 characters
\* was kept
C17_Witness ==
    /\ pc = "compared"
    /\ Len(lines) >= 3
    /\ header_index = 1
    /\ lines[2] = "Setup 1,200.00 1,200.00"
    /\ lines[3] = "Widget A 2 500.00 1000.00"
    /\ items # <<>>
    /\ items[1].description = "Widget A 2"
    /\ Len(regex_items) >= 2

(***************************************************************************)
(* Pattern order of parse_invoice_text (SpecFields)                        *)
(***************************************************************************)
\* the fields that are the plain result of one ordered pattern list over the
\* normalized text
OrderedPatterns ==
    [invoice_number |-> invoice_number_patterns, invoice_date |-> invoice_date_patterns,
     subtotal |-> subtotal_patterns, discount |-> discount_patterns,
     tax_rate |-> tax_rate_patterns, total_tax |-> total_tax_patterns,
     balance_due |-> balance_due_patterns, currency |-> currency_patterns,
     supplier_name |-> supplier_name_patterns, customer_name |-> customer_name_patterns,
     payment_terms |-> payment_terms_patterns, bank_name |-> bank_name_patterns,
     branch |-> branch_patterns, account_number |-> account_number_patterns]

\* the numbers of the patterns of a list that match somewhere in txt
MatchingPatterns(patterns, txt) ==
    {k \in 1..Len(patterns) : ReSearch(patterns[k], txt, TRUE).ok}

\* the value the pattern captures at its leftmost match
CapturedBy(pattern, txt) ==
    Strip(Group(ReSearch(pattern, txt, TRUE), txt,
                IF DefinesGroup(pattern, "value") THEN "value" ELSE "1"))

PostProcessed ==
    /\ pc \in {"persist", "resolve", "insert_invoice", "line_items", "exited"}
    /\ IsSupported(input_name)

\* C19 as the claim states it: after the filename fallback and the artifact stripping,
\* the final invoice_number holds no occurrence of the separator artifact (an em dash
\* and an underscore), also for values with repeated or nested artifacts, and stripping
\* it again changes nothing.
C19_NoArtifactLeft ==
    PostProcessed =>
        /\ ~Contains(fields.invoice_number, SeparatorArtifact)
        /\ CleanInvoiceNumber(program, fields.invoice_number) = fields.invoice_number

\* C20 as the claim states it: when parse_invoice_text detects no field in the OCR
\* text, process_file writes no JSON sidecar, calls no repository function and
\* returns None.
C20_NoFieldsNoPersistence ==
    (pc = "exited" /\ IsSupported(input_name) /\ parse_invoice_text(text) = InvoiceFieldsDefault) =>
        /\ json_written = <<>>
        /\ calls = <<>>
        /\ result = ReturnedNone

\* the header insert of this run failed in the database
HeaderInsertFailed ==
    \E k \in 1..Len(calls) : calls[k].fn = "insert_invoice" /\ calls[k].outcome # "committed"

\* C21 as the claim states it: in erp.process_file, when the insert of the invoice
\* header fails in the database, process_file returns None and insert_line_items is
\* not called.
C21_ItemsOnlyAfterHeaderInsert ==
    (program = "erp" /\ pc = "exited" /\ HeaderInsertFailed) =>
        /\ result = ReturnedNone
        /\ \A k \in 1..Len(calls) : calls[k].fn # "insert_line_items"

====
